---------------------------- MODULE Spec2Model ----------------------------
(***************************************************************************)
(* Model of the seen-item cache (src/util/cache.py), the URL canonicalizer *)
(* it keys on, the sentence normalizer and the summarizer                  *)
(* (src/summarize/sonar.py), and the dedupe and cap steps of main           *)
(* (src/main.py).                                                          *)
(*                                                                         *)
(* Strings are sequences of tokens.  A token is one character ("/", ":",   *)
(* "?", "#", "&", "=", "+", " ", ".", ",") or an atomic run of characters  *)
(* that the code never looks inside ("http", "utm_source", "%20").         *)
(***************************************************************************)
EXTENDS Integers, Sequences, FiniteSets, TLC

VARIABLES
    \* ---- seen-item cache (cache.py) ----
    disk,       \* the file at CACHE_PATH: [kind, data]
    dirExists,  \* whether dirname(CACHE_PATH) exists
    now,        \* wall clock, int(time.time())
    pc,         \* position of the running call
    op,         \* the call in progress or last ended
    items,      \* its argument
    callNow,    \* the value of _now() it read
    cache,      \* its in-memory dict
    fresh,      \* filter_new's result list
    ret,        \* how the last call ended
    preDisk,    \* the file as it was when the call started
    lastMark,   \* the last completed call, if it was mark_seen and nothing ran since
    \* ---- canonicalizer (cache.py) ----
    raw,        \* a raw URL
    variant,    \* a raw URL that differs from raw in one erased feature
    canon,      \* _canonicalize(raw)
    recanon,    \* _canonicalize(canon)
    vcanon,     \* _canonicalize(variant)
    cstep,      \* position of the canonicalizer run
    \* ---- sentence normalizer (sonar.py) ----
    sentence,   \* the input string s
    max_words,  \* the word cap
    sanitized,  \* _sanitize_one_sentence(s, max_words)
    nstep,      \* position of the normalizer run
    \* ---- summarizer (sonar.py) ----
    title,      \* summarize_one's title argument (a string or None)
    dek,        \* its dek argument (a string or None)
    word_cap,   \* self.word_cap
    reply,      \* what the chat-completion call does: [kind, content]
    text,       \* the text put in the user message
    summary,    \* what summarize_one returns
    sstep,      \* position of the summarizer run
    \* ---- orchestrator (main.py) ----
    ignore_cache, \* args.ignore_cache
    max_total,    \* args.max_total: <<>> for None, <<n>> for the integer n
    filtered,     \* the items that passed the keyword filter
    main_fresh,   \* main's fresh
    capped,       \* the items that are summarized and put in the brief
    mstep         \* position of the orchestrator run

vars == <<disk, dirExists, now, pc, op, items, callNow, cache, fresh, ret,
          preDisk, lastMark, raw, variant, canon, recanon, vcanon, cstep,
          sentence, max_words, sanitized, nstep,
          title, dek, word_cap, reply, text, summary, sstep,
          ignore_cache, max_total, filtered, main_fresh, capped, mstep>>

cacheVars == <<disk, dirExists, now, pc, op, items, callNow, cache, fresh, ret,
               preDisk, lastMark>>
canonVars == <<raw, variant, canon, recanon, vcanon, cstep>>
normVars  == <<sentence, max_words, sanitized, nstep>>
sumVars   == <<title, dek, word_cap, reply, text, summary, sstep>>
mainVars  == <<ignore_cache, max_total, filtered, main_fresh, capped, mstep>>

-----------------------------------------------------------------------------
(* Generic string (token sequence) helpers: str.find, str.split, str.join.  *)

RECURSIVE Find(_, _, _)
\* 1-based index of the first occurrence of a token of set T in s at or
\* after position i; 0 when there is none (str.find returning -1).
Find(s, T, i) ==
    IF i > Len(s) THEN 0
    ELSE IF s[i] \in T THEN i
    ELSE Find(s, T, i + 1)

Before(s, i) == SubSeq(s, 1, i - 1)
After(s, i)  == SubSeq(s, i + 1, Len(s))

RECURSIVE Split(_, _)
\* s.split(sep) for a one-token separator: always at least one field.
Split(s, sep) ==
    LET i == Find(s, {sep}, 1)
    IN  IF i = 0 THEN <<s>>
        ELSE <<Before(s, i)>> \o Split(After(s, i), sep)

RECURSIVE Join(_, _)
\* sep.join(parts)
Join(parts, sep) ==
    IF parts = <<>> THEN <<>>
    ELSE IF Len(parts) = 1 THEN parts[1]
    ELSE parts[1] \o sep \o Join(Tail(parts), sep)

RECURSIVE RStrip(_, _)
\* s.rstrip(chars): drops EVERY trailing token that is in T.
RStrip(s, T) ==
    IF s # <<>> /\ s[Len(s)] \in T THEN RStrip(SubSeq(s, 1, Len(s) - 1), T)
    ELSE s

RECURSIVE LStrip(_, _)
LStrip(s, T) ==
    IF s # <<>> /\ s[1] \in T THEN LStrip(Tail(s), T) ELSE s

WHITESPACE == {" "}

\* str.strip()
Strip(s) == RStrip(LStrip(s, WHITESPACE), WHITESPACE)

\* str.lower(), token by token
LowerTok(t) ==
    CASE t = "HTTP"       -> "http"
      [] t = "HTTPS"      -> "https"
      [] t = "X"          -> "x"
      [] t = "A"          -> "a"
      [] t = "REF"        -> "ref"
      [] t = "UTM_SOURCE" -> "utm_source"
      [] OTHER            -> t

Lower(s) == [i \in 1..Len(s) |-> LowerTok(s[i])]


-----------------------------------------------------------------------------
(* urllib.parse as cache.py uses it (CPython 3.11 semantics).               *)

\* Tokens made only of scheme characters (letters, digits, "+", "-", ".").
SCHEME_WORDS == {"http", "HTTP", "https", "HTTPS", "ftp", "x", "X", "a", "A",
                 "b", "c", "f", "ref", "REF", "1", "+", "."}
\* Tokens whose first character is an ASCII letter.
ALPHA_START == SCHEME_WORDS \ {"1", "+", "."}

\* The schemes of urllib's uses_netloc list that the model's alphabet holds.
uses_netloc == {<<>>, <<"ftp">>, <<"http">>, <<"https">>}

\* urlsplit, last step: the fragment is what follows the first "#", the
\* query what follows the first "?" before it, the rest is the path.
SplitTail(scheme, netloc, rest, h) ==
    LET r3 == IF h = 0 THEN rest ELSE Before(rest, h)
        q  == IF h = 0 THEN Find(rest, {"?"}, 1) ELSE Find(Before(rest, h), {"?"}, 1)
    IN  [scheme   |-> scheme,
         netloc   |-> netloc,
         path     |-> IF q = 0 THEN r3 ELSE Before(r3, q),
         query    |-> IF q = 0 THEN <<>> ELSE After(r3, q),
         fragment |-> IF h = 0 THEN <<>> ELSE After(rest, h)]

\* urlsplit, after the netloc: split what is left at "#" and "?".
SplitRest(scheme, netloc, rest) ==
    SplitTail(scheme, netloc, rest, Find(rest, {"#"}, 1))

\* urlsplit, after the scheme: a leading "//" starts the netloc, which ends
\* at the first of "/", "?", "#" (d; 0 when there is none).
SplitNetloc(scheme, r1, d) ==
    IF Len(r1) >= 2 /\ r1[1] = "/" /\ r1[2] = "/"
    THEN IF d = 0 THEN SplitRest(scheme, SubSeq(r1, 3, Len(r1)), <<>>)
         ELSE SplitRest(scheme, SubSeq(r1, 3, d - 1), SubSeq(r1, d, Len(r1)))
    ELSE SplitRest(scheme, <<>>, r1)

\* urlsplit, first step: the scheme is what precedes the first ":" (at i)
\* when it starts with a letter and holds scheme characters only.
SplitScheme(url, i) ==
    IF /\ i > 1
       /\ url[1] \in ALPHA_START
       /\ \A j \in 1..(i - 1) : url[j] \in SCHEME_WORDS
    THEN SplitNetloc(Lower(Before(url, i)), After(url, i),
                     Find(After(url, i), {"/", "?", "#"}, 3))
    ELSE SplitNetloc(<<>>, url, Find(url, {"/", "?", "#"}, 3))

\* urlsplit(url)
urlsplit(url) == SplitScheme(url, Find(url, {":"}, 1))

\* Whether the netloc holds one of "[" and "]" without the other.
UnbalancedBracket(n) == (Find(n, {"["}, 1) > 0) # (Find(n, {"]"}, 1) > 0)

\* urlsplit raises ValueError ("Invalid IPv6 URL") on an unbalanced bracket
\* in the netloc.
urlsplitRaises(url) == UnbalancedBracket(urlsplit(url).netloc)

\* unquote() after replace("+", " "), token by token.
UnquoteTok(t) ==
    CASE t = "+"   -> " "
      [] t = "%20" -> " "
      [] t = "%41" -> "A"
      [] t = "%3D" -> "="
      [] t = "%2F" -> "/"
      [] t = "%3A" -> ":"
      [] t = "%3F" -> "?"
      [] t = "%2B" -> "+"
      [] OTHER     -> t

unquote_plus(s) == [i \in 1..Len(s) |-> UnquoteTok(s[i])]

\* quote_plus(): letters, digits and "_.-~" stay, " " becomes "+", every
\* other character is percent-encoded.
QuoteTok(t) ==
    CASE t = " " -> "+"
      [] t = "=" -> "%3D"
      [] t = "/" -> "%2F"
      [] t = ":" -> "%3A"
      [] t = "?" -> "%3F"
      [] t = "+" -> "%2B"
      [] OTHER   -> t

quote_plus(s) == [i \in 1..Len(s) |-> QuoteTok(s[i])]

\* One field of the query string to its (key, value) pair: split at the
\* first "="; a field without "=" gets the value "" (keep_blank_values).
ParseField(f) ==
    LET e == Find(f, {"="}, 1)
    IN  IF e = 0 THEN [k |-> unquote_plus(f), v |-> <<>>]
        ELSE [k |-> unquote_plus(Before(f, e)), v |-> unquote_plus(After(f, e))]

RECURSIVE ParseFields(_)
ParseFields(fs) ==
    IF fs = <<>> THEN <<>>
    ELSE IF fs[1] = <<>> THEN ParseFields(Tail(fs))   \* empty field: skipped
    ELSE <<ParseField(fs[1])>> \o ParseFields(Tail(fs))

\* parse_qsl(qs, keep_blank_values=True)
parse_qsl(qs) == IF qs = <<>> THEN <<>> ELSE ParseFields(Split(qs, "&"))

\* urlencode(q, doseq=True) for string values
urlencode(q) ==
    Join([i \in 1..Len(q) |-> quote_plus(q[i].k) \o <<"=">> \o quote_plus(q[i].v)],
         <<"&">>)

\* urlunsplit, the tail: scheme ":" before, "?" query after
JoinURL(scheme, u1, query) ==
    (IF scheme # <<>> THEN scheme \o <<":">> ELSE <<>>)
    \o u1
    \o (IF query # <<>> THEN <<"?">> \o query ELSE <<>>)

\* urlunsplit((scheme, netloc, path, query, "")): the "//" marker is written
\* when there is a netloc, or when the scheme uses a netloc and the path
\* does not itself start with "//"; a path after the marker gets a "/".
urlunsplit(scheme, netloc, path, query) ==
    IF netloc # <<>>
       \/ (/\ scheme # <<>>
           /\ scheme \in uses_netloc
           /\ ~(Len(path) >= 2 /\ path[1] = "/" /\ path[2] = "/"))
    THEN JoinURL(scheme,
                 <<"/", "/">> \o netloc
                    \o (IF path # <<>> /\ path[1] # "/" THEN <<"/">> ELSE <<>>)
                    \o path,
                 query)
    ELSE JoinURL(scheme, path, query)

\* cache.py's denylist of tracking parameters
drop == {<<"utm_source">>, <<"utm_medium">>, <<"utm_campaign">>, <<"utm_term">>,
         <<"utm_content">>, <<"ocid">>, <<"cmpid">>, <<"sref">>, <<"srnd">>, <<"ref">>}

\* (mutant) the trailing "/" is kept
CanonPathKeepSlash(path) == path

\* The path as _canonicalize keeps it: u.path.rstrip("/")
CanonPath(path) == RStrip(path, {"/"})

\* The host as _canonicalize keeps it: u.netloc.lower()
CanonNetloc(netloc) == Lower(netloc)

\* (mutant) the denylist is matched case-sensitively
KeepParamCaseSensitive(p) == p.k \notin drop

\* Whether _canonicalize keeps a query pair: k.lower() not in drop
KeepParam(p) == Lower(p.k) \notin drop

\* The scheme as _canonicalize keeps it: http and https become https
CanonScheme(scheme) ==
    IF scheme \in {<<"http">>, <<"https">>} THEN <<"https">> ELSE scheme

\* The query as _canonicalize keeps it: the pairs not in drop, re-encoded
CanonQuery(query) == urlencode(SelectSeq(parse_qsl(query), KeepParam))

\* _canonicalize, the reassembly of the split URL u
Reassemble(u) ==
    urlunsplit(CanonScheme(u.scheme), CanonNetloc(u.netloc), CanonPath(u.path),
               CanonQuery(u.query))

\* _canonicalize, on the stripped string: the string itself when urlsplit
\* raises
CanonStripped(s) ==
    IF urlsplitRaises(s) THEN s ELSE Reassemble(urlsplit(s))

\* _canonicalize(url)
_canonicalize(url) == CanonStripped(Strip(url))

\* url_key(url): the SHA-256 hex digest of the canonical URL.  The digest is
\* modelled as an injective tagging of its argument (no collisions).
url_key(url) == <<"sha256">> \o _canonicalize(url)


-----------------------------------------------------------------------------
(* Raw URLs for the canonicalizer: every URL the generic syntax            *)
(*   [scheme ":"] ["//" authority] path ["?" query] ["#" fragment]          *)
(* builds from the parts below.                                             *)

MaxSegs   == 2    \* path segments of a generated URL
MaxParams == 2    \* query parameters of a generated URL

NONE == <<"none">>   \* an absent authority or fragment
NOQUERY == <<NONE>>  \* an absent query (no "?")

\* The URLs of the items the cache is exercised with.
U1 == <<"https", ":", "/", "/", "x", "/", "a">>
U2 == <<"HTTP", ":", "/", "/", "X", "/", "a", "/", "?", "utm_source", "=", "1", "#", "f">>
U3 == <<"https", ":", "/", "/", "x", "/", "b">>

SCHEMES   == {<<>>, <<"http">>, <<"HTTPS">>, <<"ftp">>}
AUTHS     == {NONE, <<>>, <<"X">>}
SEGMENTS  == {<<>>, <<"X">>}
PARAMS    == {<<"b">>, <<"utm_source", "=", "1">>, <<"REF", "=", "%41">>,
              <<"c", "=", "%20">>}
FRAGMENTS == {NONE, <<"f", "/">>}

\* The tracking parameters a variant may add (denylisted keys, any case).
TRACKING  == {<<"utm_source", "=", "1">>, <<"UTM_SOURCE">>}

SeqsUpTo(S, n) == UNION {[1..k -> S] : k \in 0..n}

URLParts == [scheme : SCHEMES, auth : AUTHS, segs : SeqsUpTo(SEGMENTS, MaxSegs),
             params : {NOQUERY} \cup SeqsUpTo(PARAMS, MaxParams),
             frag : FRAGMENTS]

RECURSIVE PathOf(_)
\* The path of the segments: "/" before each one.
PathOf(segs) ==
    IF segs = <<>> THEN <<>> ELSE <<"/">> \o segs[1] \o PathOf(Tail(segs))

\* The URL string of the parts (RFC 3986 section 5.3 recomposition).
Build(p) ==
    (IF p.scheme = <<>> THEN <<>> ELSE p.scheme \o <<":">>)
    \o (IF p.auth = NONE THEN <<>> ELSE <<"/", "/">> \o p.auth)
    \o PathOf(p.segs)
    \o (IF p.params = NOQUERY THEN <<>> ELSE <<"?">> \o Join(p.params, <<"&">>))
    \o (IF p.frag = NONE THEN <<>> ELSE <<"#">> \o p.frag)

UpperScheme(sch) ==
    CASE sch = <<"http">>  -> <<"HTTP">>
      [] sch = <<"HTTPS">> -> <<"https">>
      [] OTHER             -> sch

InsertAt(s, i, x) == SubSeq(s, 1, i - 1) \o <<x>> \o SubSeq(s, i, Len(s))

\* The URLs that differ from the URL of parts p in exactly one of: a
\* denylisted tracking parameter, the fragment, one trailing "/" on the
\* path, the letter case of an http/https scheme.
Variants(p) ==
    {[p EXCEPT !.params = InsertAt(IF p.params = NOQUERY THEN <<>> ELSE p.params, i, t)] :
        i \in 1..(IF p.params = NOQUERY THEN 1 ELSE Len(p.params) + 1), t \in TRACKING}
    \cup {[p EXCEPT !.frag = f] : f \in (FRAGMENTS \cup {<<>>}) \ {p.frag}}
    \cup {[p EXCEPT !.segs = Append(p.segs, <<>>)]}
    \cup {[p EXCEPT !.scheme = UpperScheme(p.scheme)] : x \in {s \in {p.scheme} : UpperScheme(s) # s}}

InitCache0 ==
    /\ disk = [kind |-> "absent", data |-> {}]
    /\ dirExists = FALSE
    /\ now = 0
    /\ pc = "idle"
    /\ op = "none"
    /\ items = <<>>
    /\ callNow = 0
    /\ cache = {}
    /\ fresh = <<>>
    /\ ret = "none"
    /\ preDisk = [kind |-> "absent", data |-> {}]
    /\ lastMark = [items |-> <<>>, t |-> -1, older |-> {}]

InitNorm0 ==
    /\ sentence = <<>>
    /\ max_words = 0
    /\ sanitized = <<>>
    /\ nstep = "off"

InitSum0 ==
    /\ title = <<>>
    /\ dek = <<>>
    /\ word_cap = 0
    /\ reply = [kind |-> "none", content |-> <<>>]
    /\ text = <<>>
    /\ summary = <<>>
    /\ sstep = "off"

InitMain0 ==
    /\ ignore_cache = FALSE
    /\ max_total = <<>>
    /\ filtered = <<>>
    /\ main_fresh = <<>>
    /\ capped = <<>>
    /\ mstep = "off"

InitCanon0 ==
    /\ raw = <<>>
    /\ variant = <<>>
    /\ canon = <<>>
    /\ recanon = <<>>
    /\ vcanon = <<>>
    /\ cstep = "off"

\* A raw URL and one variant of it are given.
InitCanon ==
    /\ InitCache0
    /\ InitMain0
    /\ InitNorm0
    /\ InitSum0
    /\ \E p \in URLParts :
         /\ raw = Build(p)
         /\ \E v \in Variants(p) : variant = Build(v)
    /\ canon = <<>>
    /\ recanon = <<>>
    /\ vcanon = <<>>
    /\ cstep = "input"

\* canon := _canonicalize(raw)
Canonicalize ==
    /\ cstep = "input"
    /\ canon' = _canonicalize(raw)
    /\ cstep' = "canon"
    /\ UNCHANGED <<raw, variant, recanon, vcanon>>
    /\ UNCHANGED cacheVars
    /\ UNCHANGED normVars
    /\ UNCHANGED sumVars
    /\ UNCHANGED mainVars

\* recanon := _canonicalize(canon);  vcanon := _canonicalize(variant)
Recanonicalize ==
    /\ cstep = "canon"
    /\ recanon' = _canonicalize(canon)
    /\ vcanon' = _canonicalize(variant)
    /\ cstep' = "done"
    /\ UNCHANGED <<raw, variant, canon>>
    /\ UNCHANGED cacheVars
    /\ UNCHANGED normVars
    /\ UNCHANGED sumVars
    /\ UNCHANGED mainVars

NextCanon == Canonicalize \/ Recanonicalize

SpecCanon == InitCanon /\ [][NextCanon]_vars


-----------------------------------------------------------------------------
(* The seen-item cache: _load, _save, filter_new, mark_seen.                *)

TTL_SECONDS == 2   \* SEEN_TTL_SECONDS, scaled down from 72 h
MaxTime     == 4   \* the clock stops advancing here
MaxBatch    == 2   \* items in one call

\* url_key of every ingested URL
KEY == [u \in {U1, U2, U3} |-> url_key(u)]

\* Ingested items; A and B carry URLs with one canonical form.
ITEMS == {[title |-> "A", url |-> U1], [title |-> "B", url |-> U2],
          [title |-> "C", url |-> U3]}

BATCHES == SeqsUpTo(ITEMS, MaxBatch)

\* A dict is the set of its <<key, value>> pairs, one pair per key.
EmptyDict == {}

Keys(d) == {e[1] : e \in d}

\* d[k], for k in d
Get(d, k) == (CHOOSE e \in d : e[1] = k)[2]

\* d[k] = v  (insert or overwrite)
DictSet(d, k, v) == {e \in d : e[1] # k} \cup {<<k, v>>}

\* d without the keys of set K
DictDrop(d, K) == {e \in d : e[1] \notin K}

ABSENT  == [kind |-> "absent", data |-> EmptyDict]
\* A file that json.load cannot parse: what open(path, "w") plus an
\* unfinished json.dump leave behind.
CORRUPT == [kind |-> "corrupt", data |-> EmptyDict]
OkFile(d) == [kind |-> "ok", data |-> d]

\* What a call of _load gives its caller: a dict, or an exception.
Returned(d) == [raised |-> FALSE, value |-> d]
Raised      == [raised |-> TRUE, value |-> EmptyDict]

\* (mutant) no try/except around open/json.load
_loadNoCatch(d) ==
    CASE d.kind = "absent" -> Returned(EmptyDict)
      [] d.kind = "ok"     -> Returned(d.data)
      [] OTHER             -> Raised

\* _load(): {} when the file is absent, the parsed dict when json.load
\* parses it, {} on any exception from open/json.load.
_load(d) ==
    CASE d.kind = "absent" -> Returned(EmptyDict)
      [] d.kind = "ok"     -> Returned(d.data)
      [] OTHER             -> Returned(EmptyDict)

\* (mutant) the comparison off by one: an entry exactly TTL old is purged
ExpiredAtTTL(c, t) == {k \in Keys(c) : t - Get(c, k) >= TTL_SECONDS}

\* The keys filter_new purges: now - ts > TTL_SECONDS
Expired(c, t) == {k \in Keys(c) : t - Get(c, k) > TTL_SECONDS}

\* (mutant) no purge before the loop
PurgeNothing(c, t) == c

Purge(c, t) == DictDrop(c, Expired(c, t))

RECURSIVE FilterLoopNoInsert(_, _, _, _)
\* (mutant) the key of a fresh item is not recorded while the loop runs,
\* only afterwards
FilterLoopNoInsert(its, c, f, t) ==
    IF its = <<>>
    THEN [cache |-> c \cup {<<KEY[f[i].url], t>> : i \in 1..Len(f)}, fresh |-> f]
    ELSE IF KEY[its[1].url] \notin Keys(c)
         THEN FilterLoopNoInsert(Tail(its), c, Append(f, its[1]), t)
         ELSE FilterLoopNoInsert(Tail(its), c, f, t)

RECURSIVE FilterLoopRefresh(_, _, _, _)
\* (mutant) a key that is already in the cache gets the current timestamp
FilterLoopRefresh(its, c, f, t) ==
    IF its = <<>> THEN [cache |-> c, fresh |-> f]
    ELSE LET key == KEY[its[1].url]
         IN  IF key \notin Keys(c)
             THEN FilterLoopRefresh(Tail(its), DictSet(c, key, t), Append(f, its[1]), t)
             ELSE FilterLoopRefresh(Tail(its), DictSet(c, key, t), f, t)

RECURSIVE FilterLoop(_, _, _, _)
\* filter_new's loop over items: a key not in the cache is recorded with
\* `t` and its item appended to fresh; a key in the cache is left alone.
FilterLoop(its, c, f, t) ==
    IF its = <<>> THEN [cache |-> c, fresh |-> f]
    ELSE LET key == KEY[its[1].url]
         IN  IF key \notin Keys(c)
             THEN FilterLoop(Tail(its), DictSet(c, key, t), Append(f, its[1]), t)
             ELSE FilterLoop(Tail(its), c, f, t)

RECURSIVE MarkLoopKeepOld(_, _, _)
\* (mutant) a key that is already recorded keeps its old timestamp
MarkLoopKeepOld(its, c, t) ==
    IF its = <<>> THEN c
    ELSE LET key == KEY[its[1].url]
         IN  MarkLoopKeepOld(Tail(its),
                             IF key \in Keys(c) THEN c ELSE DictSet(c, key, t), t)

RECURSIVE MarkLoop(_, _, _)
\* mark_seen's loop: cache[url_key(it["url"])] = now for every item
MarkLoop(its, c, t) ==
    IF its = <<>> THEN c
    ELSE MarkLoop(Tail(its), DictSet(c, KEY[its[1].url], t), t)

\* No mark_seen call completed right before this point.
NoMark == [items |-> <<>>, t |-> -1, older |-> {}]

\* The mark_seen call that is returning: its items, its time and the keys it
\* found recorded with an older timestamp.
ThisMark ==
    [items |-> items, t |-> callNow,
     older |-> {e[1] : e \in {x \in _load(preDisk).value :
                                  x[2] < callNow /\ <<x[1], callNow>> \in cache}}]

\* A call that _load fails: the exception leaves filter_new / mark_seen.
CallRaises(name, its) ==
    /\ pc' = "idle"
    /\ op' = name
    /\ ret' = "raised"
    /\ preDisk' = disk
    /\ lastMark' = NoMark
    /\ UNCHANGED <<disk, now, items, callNow, cache, fresh>>

\* filter_new(items) up to its call of _save: load, read the clock, purge,
\* loop.
FilterNewCall(its) ==
    /\ pc = "idle"
    /\ dirExists' = (dirExists \/ disk.kind = "absent")   \* _load's makedirs
    /\ IF _load(disk).raised THEN CallRaises("filter_new", its)
       ELSE LET r == FilterLoop(its, Purge(_load(disk).value, now), <<>>, now)
            IN  /\ pc' = "save"
                /\ op' = "filter_new"
                /\ items' = its
                /\ callNow' = now
                /\ cache' = r.cache
                /\ fresh' = r.fresh
                /\ ret' = "running"
                /\ preDisk' = disk
                /\ UNCHANGED <<disk, now, lastMark>>
    /\ UNCHANGED canonVars
    /\ UNCHANGED normVars
    /\ UNCHANGED sumVars
    /\ UNCHANGED mainVars

\* mark_seen(items) up to its call of _save.
MarkSeenCall(its) ==
    /\ pc = "idle"
    /\ dirExists' = (dirExists \/ disk.kind = "absent")
    /\ IF _load(disk).raised THEN CallRaises("mark_seen", its)
       ELSE /\ pc' = "save"
            /\ op' = "mark_seen"
            /\ items' = its
            /\ callNow' = now
            /\ cache' = MarkLoop(its, _load(disk).value, now)
            /\ fresh' = <<>>
            /\ ret' = "running"
            /\ preDisk' = disk
            /\ UNCHANGED <<disk, now, lastMark>>
    /\ UNCHANGED canonVars
    /\ UNCHANGED normVars
    /\ UNCHANGED sumVars
    /\ UNCHANGED mainVars

\* _save, first half: makedirs, then open(CACHE_PATH, "w") truncates the file.
SaveOpen ==
    /\ pc = "save"
    /\ dirExists' = TRUE
    /\ disk' = CORRUPT
    /\ pc' = "dump"
    /\ UNCHANGED <<now, op, items, callNow, cache, fresh, ret, preDisk, lastMark>>
    /\ UNCHANGED canonVars
    /\ UNCHANGED normVars
    /\ UNCHANGED sumVars
    /\ UNCHANGED mainVars

\* _save, second half: json.dump writes the dict and the file is closed.
\* The call is then at its return statement.
SaveDump ==
    /\ pc = "dump"
    /\ disk' = OkFile(cache)
    /\ pc' = "return"
    /\ UNCHANGED <<dirExists, now, op, items, callNow, cache, fresh, ret, preDisk, lastMark>>
    /\ UNCHANGED canonVars
    /\ UNCHANGED normVars
    /\ UNCHANGED sumVars
    /\ UNCHANGED mainVars

\* The locals of a call that has ended are gone.
DropLocals ==
    /\ items' = <<>>
    /\ callNow' = 0
    /\ cache' = EmptyDict
    /\ fresh' = <<>>

\* The call returns (filter_new: fresh; mark_seen: None).
Return ==
    /\ pc = "return"
    /\ pc' = "idle"
    /\ ret' = "returned"
    /\ lastMark' = IF op = "mark_seen" THEN ThisMark ELSE NoMark
    /\ preDisk' = disk
    /\ DropLocals
    /\ UNCHANGED <<disk, dirExists, now, op>>
    /\ UNCHANGED canonVars
    /\ UNCHANGED normVars
    /\ UNCHANGED sumVars
    /\ UNCHANGED mainVars

\* The process dies inside a call; the next run starts a new process.
Crash ==
    /\ pc \in {"save", "dump", "return"}
    /\ ret' = (CASE pc = "save" -> "crashed before write"
                 [] pc = "dump" -> "crashed in write"
                 [] OTHER       -> "crashed after write")
    /\ pc' = "idle"
    /\ lastMark' = NoMark
    /\ DropLocals
    /\ UNCHANGED <<disk, dirExists, now, op, preDisk>>
    /\ UNCHANGED canonVars
    /\ UNCHANGED normVars
    /\ UNCHANGED sumVars
    /\ UNCHANGED mainVars

\* Time passes between calls.
Tick ==
    /\ pc = "idle"
    /\ now < MaxTime
    /\ now' = now + 1
    /\ UNCHANGED <<disk, dirExists, pc, op, items, callNow, cache, fresh, ret, preDisk, lastMark>>
    /\ UNCHANGED canonVars
    /\ UNCHANGED normVars
    /\ UNCHANGED sumVars
    /\ UNCHANGED mainVars

Init ==
    /\ InitCache0
    /\ InitMain0
    /\ InitCanon0
    /\ InitNorm0
    /\ InitSum0

Next ==
    \/ \E its \in BATCHES : FilterNewCall(its)
    \/ \E its \in BATCHES : MarkSeenCall(its)
    \/ SaveOpen
    \/ SaveDump
    \/ Return
    \/ Crash
    \/ Tick

Spec == Init /\ [][Next]_vars


-----------------------------------------------------------------------------
(* Properties of the cache.                                                 *)

\* The call `name` has saved and is at its return statement.
Done(name) == pc = "return" /\ op = name

\* The mapping the call read from the store.
Loaded == _load(preDisk).value

KeyAt(i) == KEY[items[i].url]

KeysOfItems == {KeyAt(i) : i \in 1..Len(items)}

\* The position of the first item of the batch with key k.
FirstIndex(k) == CHOOSE i \in 1..Len(items) :
                    KeyAt(i) = k /\ \A j \in 1..(i - 1) : KeyAt(j) # k

\* The items of fresh that have key k.
FreshWith(k) == {j \in 1..Len(fresh) : KEY[fresh[j].url] = k}

RECURSIVE IsSubseq(_, _)
\* f is s with some elements left out, order kept.
IsSubseq(f, s) ==
    IF f = <<>> THEN TRUE
    ELSE IF s = <<>> THEN FALSE
    ELSE IF f[1] = s[1] THEN IsSubseq(Tail(f), Tail(s))
    ELSE IsSubseq(f, Tail(s))

\* The first item of the batch for each key, in input order.
FirstOccurrences ==
    SelectSeq([i \in 1..Len(items) |-> [i |-> i, it |-> items[i]]],
              LAMBDA x : FirstIndex(KeyAt(x.i)) = x.i)

\* C1 (TTL expiry): when filter_new runs at time `now` on a batch holding an
\* item whose key the store records with timestamp t, the item is dropped
\* if t < now <= t + TTL; if now > t + TTL the item (its first occurrence
\* in the batch) is returned as new and the key is persisted with
\* timestamp now.
C1_TTLExpiry ==
    Done("filter_new") /\ preDisk.kind = "ok" =>
        \A k \in KeysOfItems \cap Keys(preDisk.data) :
            LET t == Get(preDisk.data, k)
            IN  /\ (t < callNow /\ callNow <= t + TTL_SECONDS) =>
                       /\ FreshWith(k) = {}
                       /\ <<k, t>> \in disk.data
                /\ (callNow > t + TTL_SECONDS) =>
                       /\ \E j \in FreshWith(k) : fresh[j] = items[FirstIndex(k)]
                       /\ disk.kind = "ok"
                       /\ <<k, callNow>> \in disk.data

\* A filter_new call has dropped an item seen within the TTL and returned
\* one seen longer ago.
C1_Witness ==
    /\ Done("filter_new") /\ preDisk.kind = "ok"
    /\ \E k \in KeysOfItems \cap Keys(preDisk.data) :
          /\ Get(preDisk.data, k) < callNow
          /\ callNow <= Get(preDisk.data, k) + TTL_SECONDS
          /\ FreshWith(k) = {}
    /\ \E k \in KeysOfItems \cap Keys(preDisk.data) :
          /\ callNow > Get(preDisk.data, k) + TTL_SECONDS
          /\ FreshWith(k) # {}

\* C2 (first-seen-wins): the result of filter_new is a subsequence of its
\* input; of the items that share one key at most one is returned, it is
\* the earliest of them in the input, and it is returned only if the key
\* was absent from the purged cache.
C2_FirstSeenWins ==
    Done("filter_new") =>
        /\ IsSubseq(fresh, items)
        /\ \A k \in KeysOfItems :
              /\ Cardinality(FreshWith(k)) <= 1
              /\ \A j \in FreshWith(k) :
                    /\ fresh[j] = items[FirstIndex(k)]
                    /\ k \notin Keys(Purge(Loaded, callNow))

\* filter_new got two different items with one canonical URL and returned
\* the first of them only.
C2_Witness ==
    /\ Done("filter_new")
    /\ Len(items) = 2 /\ items[1] # items[2] /\ KeyAt(1) = KeyAt(2)
    /\ fresh = <<items[1]>>

\* C3 (mark_seen does not filter): mark_seen at time t persists the key of
\* every item with timestamp t, also over an older timestamp, keeps every
\* other entry and returns no items; filter_new with the same items at
\* time t + 1 then returns the empty sequence.
C3_MarkSeenRecordsAll ==
    /\ Done("mark_seen") =>
          /\ disk.kind = "ok"
          /\ \A k \in KeysOfItems : <<k, callNow>> \in disk.data
          /\ \A e \in Loaded : e[1] \notin KeysOfItems => e \in disk.data
          /\ Keys(disk.data) = Keys(Loaded) \cup KeysOfItems
          /\ fresh = <<>>
    /\ (Done("filter_new") /\ lastMark.t >= 0 /\ lastMark.items = items
            /\ callNow = lastMark.t + 1) =>
          fresh = <<>>

\* mark_seen overwrote an older timestamp of one of its two items, and the
\* filter_new call one second later returned nothing.
C3_Witness ==
    /\ Done("filter_new") /\ lastMark.t >= 0 /\ lastMark.items = items
    /\ callNow = lastMark.t + 1
    /\ Len(items) = 2 /\ KeyAt(1) # KeyAt(2)
    /\ fresh = <<>>
    /\ \A k \in KeysOfItems : <<k, lastMark.t>> \in disk.data
    /\ lastMark.older # {}

\* C4 (no refresh): filter_new persists every entry that was in the store
\* and not expired with its last_seen unchanged, whether or not the batch
\* holds its key; every other persisted entry is a key of the batch that
\* was absent or purged, with the current timestamp.
C4_NoRefresh ==
    Done("filter_new") =>
        /\ disk.kind = "ok"
        /\ \A e \in Loaded : callNow - e[2] <= TTL_SECONDS => e \in disk.data
        /\ \A e \in disk.data :
              \/ e \in Loaded /\ callNow - e[2] <= TTL_SECONDS
              \/ /\ e[2] = callNow
                 /\ e[1] \in KeysOfItems
                 /\ \A x \in Loaded : x[1] = e[1] => callNow - x[2] > TTL_SECONDS

\* filter_new saw again a key recorded earlier and within the TTL, and left
\* an untouched entry alone as well.
C4_Witness ==
    /\ Done("filter_new")
    /\ \E e \in Loaded : e[1] \in KeysOfItems /\ e[2] < callNow /\ e \in disk.data
    /\ \E e \in Loaded : e[1] \notin KeysOfItems /\ e[2] < callNow /\ e \in disk.data

NoneExpired(d, t) == \A e \in d : t - e[2] <= TTL_SECONDS

\* C5 as stated (bounded store over any sequence of filter_new and
\* mark_seen calls): after every completed call at time now, no persisted
\* entry has now - last_seen > TTL.
C5_NoExpiredAfterAnyCall ==
    pc = "return" =>
        disk.kind = "ok" /\ NoneExpired(disk.data, callNow)

\* C5 as amended: after every completed filter_new call at time now, no
\* persisted entry has now - last_seen > TTL (mark_seen does not purge).
C5_FilterNewPurges ==
    Done("filter_new") => disk.kind = "ok" /\ NoneExpired(disk.data, callNow)

\* filter_new found an expired entry in the store and persisted without it.
C5_Witness ==
    /\ Done("filter_new")
    /\ Expired(Loaded, callNow) # {}
    /\ Keys(disk.data) \cap Expired(Loaded, callNow) = {}

\* C6 (atomic write-back): after a crash between the load and the
\* completion of the save, the store holds exactly its pre-call content.
C6_AtomicWriteBack ==
    (pc = "idle" /\ ret \in {"crashed before write", "crashed in write"}) =>
        disk = preDisk

C12_LoadHasNoEffect ==
    [][(pc = "idle" /\ pc' # "idle" /\ disk.kind = "absent") =>
           /\ ret' # "raised"
           /\ disk' = disk
           /\ dirExists' = dirExists]_vars


-----------------------------------------------------------------------------
(* Properties of the canonicalizer.                                         *)

\* C8 (canonicalization invariance): two raw URLs that differ only in a
\* denylisted tracking parameter (any letter case), in the fragment, in a
\* trailing "/" on the path or in the case of an http/https scheme have the
\* same canonical form and the same cache key.
C8_CanonicalizationInvariance ==
    cstep = "done" => vcanon = canon /\ url_key(variant) = url_key(raw)

\* A URL and its variant with an upper-case tracking key were canonicalized
\* to one string that differs from both.
C8_Witness ==
    /\ cstep = "done"
    /\ Find(variant, {"UTM_SOURCE"}, 1) > 0
    /\ Find(raw, {"UTM_SOURCE"}, 1) = 0
    /\ vcanon = canon
    /\ canon # raw /\ canon # variant /\ canon # <<>>

\* C9 (idempotent canonicalization): for an http(s) URL u,
\* canonicalize(canonicalize(u)) = canonicalize(u).
C9_IdempotentCanonicalization ==
    (cstep = "done" /\ urlsplit(raw).scheme \in {<<"http">>, <<"https">>}) =>
        recanon = canon


-----------------------------------------------------------------------------
(* The sentence normalizer: _format_iso_dates, _tidy_units,                 *)
(* _sanitize_one_sentence.                                                  *)

MaxWords == 3   \* whitespace-separated words of an input sentence
MaxCap   == 2   \* largest max_words tried

ISO_VALID   == "2025-09-06"
ISO_INVALID == "2025-13-06"    \* month 13: datetime() raises

\* Tokens made of word characters (\w) only.
WORD_TOKENS == {"a", "5", "6", "2025", "Sep", "percent", "MPs", "barrels",
                "per", "day", "http", "HTTP", "x"}
\* Tokens that start / end with a word character.
STARTS_WORD == WORD_TOKENS \cup {ISO_VALID, ISO_INVALID, "b/d"}
ENDS_WORD   == WORD_TOKENS \cup {ISO_VALID, ISO_INVALID, "b/d"}
\* Tokens that end with a digit.
ENDS_DIGIT  == {"5", "6", "2025", ISO_VALID, ISO_INVALID}

\* \b before position i / after position i of s
BoundaryBefore(s, i) == i = 1 \/ s[i - 1] \notin ENDS_WORD
BoundaryAfter(s, i)  == i = Len(s) \/ s[i + 1] \notin STARTS_WORD

RECURSIVE SplitWS(_)
\* str.split(): the maximal runs of non-whitespace tokens
SplitWS(s) ==
    LET t == LStrip(s, WHITESPACE)
        i == Find(t, WHITESPACE, 1)
    IN  IF t = <<>> THEN <<>>
        ELSE IF i = 0 THEN <<t>>
        ELSE <<Before(t, i)>> \o SplitWS(After(t, i))

\* " ".join(s.split())
CollapseWS(s) == Join(SplitWS(s), <<" ">>)

\* repl(m) of _format_iso_dates: strftime("%b %-d, %Y"), or the match itself
\* when datetime(y, mo, d) raises
DateRepl(t) ==
    IF t = ISO_VALID THEN <<"Sep", " ", "6", ",", " ", "2025">> ELSE <<t>>

RECURSIVE FormatFrom(_, _)
FormatFrom(s, i) ==
    IF i > Len(s) THEN <<>>
    ELSE (IF s[i] \in {ISO_VALID, ISO_INVALID}
             /\ BoundaryBefore(s, i) /\ BoundaryAfter(s, i)
          THEN DateRepl(s[i]) ELSE <<s[i]>>)
         \o FormatFrom(s, i + 1)

\* _format_iso_dates(text): re.sub(r"\b(\d{4})-(\d{1,2})-(\d{1,2})\b", repl, text)
_format_iso_dates(s) == FormatFrom(s, 1)

RECURSIVE PercentFrom(_, _, _)
\* re.sub(r"(?<=\d)\s*percent\b", "%", text): out is the rewritten prefix
PercentFrom(s, i, out) ==
    IF i > Len(s) THEN out
    ELSE LET pre == RStrip(out, WHITESPACE)
         IN  IF s[i] = "percent" /\ BoundaryAfter(s, i)
                /\ pre # <<>> /\ pre[Len(pre)] \in ENDS_DIGIT
             THEN PercentFrom(s, i + 1, Append(pre, "%"))
             ELSE PercentFrom(s, i + 1, Append(out, s[i]))

RECURSIVE BarrelsFrom(_, _)
\* re.sub(r"\bbarrels per day\b", "b/d", text)
BarrelsFrom(s, i) ==
    IF i > Len(s) THEN <<>>
    ELSE IF /\ i + 4 <= Len(s)
            /\ SubSeq(s, i, i + 4) = <<"barrels", " ", "per", " ", "day">>
            /\ BoundaryBefore(s, i) /\ BoundaryAfter(s, i + 4)
         THEN <<"b/d">> \o BarrelsFrom(s, i + 5)
         ELSE <<s[i]>> \o BarrelsFrom(s, i + 1)

RECURSIVE MPsFrom(_, _, _)
\* re.sub(r"(\d)\s*MPs\b", r"\1 MPs", text)
MPsFrom(s, i, out) ==
    IF i > Len(s) THEN out
    ELSE LET pre == RStrip(out, WHITESPACE)
         IN  IF s[i] = "MPs" /\ BoundaryAfter(s, i)
                /\ pre # <<>> /\ pre[Len(pre)] \in ENDS_DIGIT
             THEN MPsFrom(s, i + 1, pre \o <<" ", "MPs">>)
             ELSE MPsFrom(s, i + 1, Append(out, s[i]))

PUNCT == {",", ".", ":", ";", "!", "?"}

RECURSIVE PunctFrom(_, _, _)
\* re.sub(r"\s+([,.:;!?])", r"\1", text)
PunctFrom(s, i, out) ==
    IF i > Len(s) THEN out
    ELSE IF s[i] \in PUNCT
         THEN PunctFrom(s, i + 1, Append(RStrip(out, WHITESPACE), s[i]))
         ELSE PunctFrom(s, i + 1, Append(out, s[i]))

RECURSIVE SpacesFrom(_, _)
\* re.sub(r"\s{2,}", " ", text)
SpacesFrom(s, i) ==
    IF i > Len(s) THEN <<>>
    ELSE IF s[i] \in WHITESPACE /\ i > 1 /\ s[i - 1] \in WHITESPACE
         THEN SpacesFrom(s, i + 1)
         ELSE <<s[i]>> \o SpacesFrom(s, i + 1)

\* _tidy_units(text)
_tidy_units(s) ==
    LET t1 == PercentFrom(s, 1, <<>>)
        t2 == BarrelsFrom(t1, 1)
        t3 == MPsFrom(t2, 1, <<>>)
        t4 == PunctFrom(t3, 1, <<>>)
    IN  SpacesFrom(t4, 1)

\* words[:n]; a negative n counts from the end, as Python slices do
Slice(words, n) ==
    IF n >= 0 THEN SubSeq(words, 1, IF n < Len(words) THEN n ELSE Len(words))
    ELSE SubSeq(words, 1, IF Len(words) + n > 0 THEN Len(words) + n ELSE 0)

\* The text the cap and the terminal punctuation are applied to.
Tidied(s) == _tidy_units(_format_iso_dates(CollapseWS(s)))

\* The hard word cap: " ".join(words[:max_words]).rstrip(",;:") + "."
Truncate(words, n) == Append(RStrip(Join(Slice(words, n), <<" ">>), {",", ";", ":"}), ".")

\* The closing step: a "." unless the string is empty or ends in . ! ?
EnsureEnd(s) ==
    IF s # <<>> /\ s[Len(s)] \notin {".", "!", "?"} THEN Append(s, ".") ELSE s

\* The cap: words = s.split(); truncate when there are more than n
CapWords(s1, words, n) ==
    IF Len(words) > n THEN Truncate(words, n) ELSE s1

\* _sanitize_one_sentence after the whitespace collapse
SanitizeCollapsed(s0, s1, n) ==
    IF s0 = <<>> THEN s0 ELSE EnsureEnd(CapWords(s1, SplitWS(s1), n))

\* _sanitize_one_sentence(s, max_words)
_sanitize_one_sentence(s, n) == SanitizeCollapsed(CollapseWS(s), Tidied(s), n)

\* The words input sentences are made of.
WORDS == {<<"a">>, <<"a", ".">>, <<"a", "!">>, <<"a", ",">>, <<",">>, <<"5">>,
          <<"percent">>, <<"MPs">>, <<ISO_VALID>>, <<ISO_INVALID>>,
          <<"barrels">>, <<"per">>, <<"day">>}

\* Whitespace between (and around) the words of an input sentence.
GAPS == {<<" ">>, <<" ", " ">>}

\* A sentence and a word cap are given.
InitNorm ==
    /\ InitCache0
    /\ InitMain0
    /\ InitCanon0
    /\ InitSum0
    /\ \E ws \in SeqsUpTo(WORDS, MaxWords), g \in GAPS :
          sentence = Join(ws, g) \o (IF g = <<" ">> THEN <<>> ELSE g)
    /\ max_words \in 1..MaxCap
    /\ sanitized = <<>>
    /\ nstep = "input"

\* sanitized := _sanitize_one_sentence(sentence, max_words)
Sanitize ==
    /\ nstep = "input"
    /\ sanitized' = _sanitize_one_sentence(sentence, max_words)
    /\ nstep' = "done"
    /\ UNCHANGED <<sentence, max_words>>
    /\ UNCHANGED cacheVars
    /\ UNCHANGED canonVars
    /\ UNCHANGED sumVars
    /\ UNCHANGED mainVars

NextNorm == Sanitize

SpecNorm == InitNorm /\ [][NextNorm]_vars

\* C10 (word cap): the result has at most max_words words, and when the
\* sentence was truncated it ends in exactly one period: the token before
\* the final "." is no punctuation mark.
C10_WordCap ==
    nstep = "done" =>
        /\ Len(SplitWS(sanitized)) <= max_words
        /\ Len(SplitWS(Tidied(sentence))) > max_words =>
              /\ sanitized[Len(sanitized)] = "."
              /\ Len(sanitized) >= 2 => sanitized[Len(sanitized) - 1] \notin PUNCT

-----------------------------------------------------------------------------
(* The summarizer: _looks_like_sentence and SonarSummarizer.summarize_one.  *)

MaxReplyWords == 3   \* whitespace-separated words of a model reply

\* len() of a token, in characters
TokLen(t) ==
    CASE t \in {ISO_VALID, ISO_INVALID}            -> 10
      [] t \in {"percent", "barrels"}              -> 7
      [] t \in {"2025", "http", "HTTP"}            -> 4
      [] t \in {"Sep", "MPs", "per", "day", "b/d"} -> 3
      [] OTHER                                     -> 1

RECURSIVE CharLen(_)
\* len(s)
CharLen(s) == IF s = <<>> THEN 0 ELSE TokLen(s[1]) + CharLen(Tail(s))

\* (s or ""): None and the empty string are falsy
OrEmpty(s) == IF s = NONE THEN <<>> ELSE s

\* s.lower().startswith("http")
StartsWithHttp(s) == s # <<>> /\ LowerTok(s[1]) = "http"

\* _looks_like_sentence(s)
_looks_like_sentence(s) ==
    LET t == Strip(OrEmpty(s))
    IN  /\ ~(CharLen(t) < 12)
        /\ ~(\A i \in 1..Len(t) : t[i] # " ")
        /\ ~StartsWithHttp(t)

\* text = (title or "").strip(); if dek: text += "\n\n" + dek.strip()
UserText(t, d) ==
    Strip(OrEmpty(t)) \o
        (IF OrEmpty(d) # <<>> THEN <<"\n", "\n">> \o Strip(d) ELSE <<>>)

\* _sanitize_one_sentence((title or "").strip(), max_words=self.word_cap)
Fallback(t, cap) == _sanitize_one_sentence(Strip(OrEmpty(t)), cap)

\* content after lines 151-152: stripped, then sanitized
Content(r, cap) == _sanitize_one_sentence(Strip(OrEmpty(r.content)), cap)

\* The junk check left out: the content is returned whatever it looks like.
ChooseUnchecked(content, fallback) == content

\* Lines 155-159: the fallback when the content does not look like a sentence
Choose(content, fallback) ==
    IF ~_looks_like_sentence(content) THEN fallback ELSE content

\* summarize_one(title, dek, source): the value it returns when the client
\* call does r.  An exception in the try block ends in the except clause.
summarize_one(t, r, cap) ==
    IF r.kind = "raises" THEN Fallback(t, cap)
    ELSE Choose(Content(r, cap), Fallback(t, cap))

\* Titles and deks of items.
TITLES == {NONE, <<>>, <<" ", "a", " ">>,
           <<"barrels", " ", "percent", " ", "5">>,
           <<"barrels", " ", "per", " ", "day", " ", "a", ",">>,
           <<"http", ":", "/", "/", "x", " ", "barrels", " ", "a">>}
DEKS   == {NONE, <<>>, <<" ", "a", ".", " ">>}

\* The words model replies are made of.
REPLY_WORDS == {<<"a">>, <<"a", ".">>, <<"percent">>, <<ISO_VALID>>,
                <<"http", ":", "/", "/", "x">>, <<"HTTP", ":", "/", "/", "x">>}

\* What the chat-completion call can do: raise (or hand back no choices),
\* or hand back a message whose content is None or a string.
REPLIES ==
    {[kind |-> "raises", content |-> <<>>], [kind |-> "content", content |-> NONE]}
    \cup {[kind |-> "content", content |-> Join(ws, g) \o (IF g = <<" ">> THEN <<>> ELSE g)] :
             ws \in SeqsUpTo(REPLY_WORDS, MaxReplyWords), g \in GAPS}

\* An item and a summarizer are given.
InitSum ==
    /\ InitCache0
    /\ InitMain0
    /\ InitCanon0
    /\ InitNorm0
    /\ title \in TITLES
    /\ dek \in DEKS
    /\ word_cap \in 1..MaxCap
    /\ reply = [kind |-> "none", content |-> <<>>]
    /\ text = <<>>
    /\ summary = <<>>
    /\ sstep = "input"

\* summarize_one builds the request, the client call does r, and the
\* method returns.
SummarizeOne ==
    /\ sstep = "input"
    /\ \E r \in REPLIES :
          /\ reply' = r
          /\ summary' = summarize_one(title, r, word_cap)
    /\ text' = UserText(title, dek)
    /\ sstep' = "done"
    /\ UNCHANGED <<title, dek, word_cap>>
    /\ UNCHANGED cacheVars
    /\ UNCHANGED canonVars
    /\ UNCHANGED normVars
    /\ UNCHANGED mainVars

NextSum == SummarizeOne

SpecSum == InitSum /\ [][NextSum]_vars

\* The normalized title and the normalized reply of the run.
NormTitle == _sanitize_one_sentence(Strip(OrEmpty(title)), word_cap)
NormReply == _sanitize_one_sentence(Strip(OrEmpty(reply.content)), word_cap)

\* C11 (junk-output fallback): whatever the model call does, summarize_one
\* returns either the normalized reply, which then passes
\* _looks_like_sentence, or the normalized title; after an exception and
\* after a reply whose normalized text fails _looks_like_sentence it
\* returns the normalized title.
C11_JunkFallback ==
    sstep = "done" =>
        /\ \/ summary = NormTitle
           \/ /\ reply.kind = "content"
              /\ summary = NormReply
              /\ _looks_like_sentence(summary)
        /\ reply.kind = "raises" => summary = NormTitle
        /\ (reply.kind = "content" /\ ~_looks_like_sentence(NormReply)) =>
              summary = NormTitle

\* The model replied with a bare link, and summarize_one returned the
\* normalized title, which differs from the normalized reply.
C11_Witness ==
    /\ sstep = "done"
    /\ reply.kind = "content"
    /\ StartsWithHttp(Strip(OrEmpty(reply.content)))
    /\ CharLen(NormReply) >= 12
    /\ \E i \in 1..Len(NormReply) : NormReply[i] = " "
    /\ summary = NormTitle
    /\ summary # NormReply
    /\ _looks_like_sentence(summary)

-----------------------------------------------------------------------------
(* The orchestrator: steps 3 and 4 of main (dedupe or bypass, cap).         *)

MaxTotal == 2   \* largest --max-total tried

\* _limit_total(items, max_total)
_limit_total(its, mt) ==
    IF mt = <<>> \/ mt[1] = 0 \/ mt[1] <= 0 THEN its
    ELSE SubSeq(its, 1, IF mt[1] < Len(its) THEN mt[1] ELSE Len(its))

\* filter_new(items) run to its end at time t on the store file f:
\* the list it returns and the mapping it saves.
filter_new(its, f, t) == FilterLoop(its, Purge(_load(f).value, t), <<>>, t)

\* mark_seen(items) run to its end: the mapping it saves.
mark_seen(its, f, t) == MarkLoop(its, _load(f).value, t)

\* main's fresh: filtered itself under --ignore-cache, else filter_new's list
Deduped(its, ic, f, t) == IF ic THEN its ELSE filter_new(its, f, t).fresh

\* The store file after step 3
StoreAfterDedupe(its, ic, f, t) ==
    IF ic THEN f ELSE OkFile(filter_new(its, f, t).cache)

\* The store file after the mark_seen of lines 170-177
StoreAfterMark(cap, ic, f, t) ==
    IF ic /\ cap # <<>> THEN OkFile(mark_seen(cap, f, t)) ELSE f

\* --max-total: not given, or an integer
MAX_TOTALS == {<<>>} \cup {<<n>> : n \in -1..MaxTotal}

\* A process is started on the store earlier runs left.
InitMain ==
    /\ InitCache0
    /\ InitCanon0
    /\ InitNorm0
    /\ InitSum0
    /\ ignore_cache = FALSE
    /\ max_total = <<>>
    /\ filtered = <<>>
    /\ main_fresh = <<>>
    /\ capped = <<>>
    /\ mstep = "start"

\* One run of main from the dedupe step to the cap and the post-bypass
\* mark_seen; capped is what step 5 summarizes.
MainRun ==
    /\ mstep \in {"start", "ran"}
    /\ \E its \in BATCHES, ic \in BOOLEAN, mt \in MAX_TOTALS :
          LET fr  == Deduped(its, ic, disk, now)
              f1  == StoreAfterDedupe(its, ic, disk, now)
              cap == _limit_total(fr, mt)
          IN  /\ filtered' = its
              /\ ignore_cache' = ic
              /\ max_total' = mt
              /\ main_fresh' = fr
              /\ capped' = cap
              /\ disk' = StoreAfterMark(cap, ic, f1, now)
              /\ dirExists' = (dirExists \/ ~ic \/ cap # <<>>)
    /\ preDisk' = disk
    /\ mstep' = "ran"
    /\ UNCHANGED <<now, pc, op, items, callNow, cache, fresh, ret, lastMark>>
    /\ UNCHANGED canonVars
    /\ UNCHANGED normVars
    /\ UNCHANGED sumVars

\* Time passes between runs.
MainTick ==
    /\ mstep \in {"start", "ran"}
    /\ now < MaxTime
    /\ now' = now + 1
    /\ UNCHANGED <<disk, dirExists, pc, op, items, callNow, cache, fresh, ret, preDisk, lastMark>>
    /\ UNCHANGED mainVars
    /\ UNCHANGED canonVars
    /\ UNCHANGED normVars
    /\ UNCHANGED sumVars

NextMain == MainRun \/ MainTick

SpecMain == InitMain /\ [][NextMain]_vars

\* The keys of the items of a list.
KeysOf(its) == {KEY[its[i].url] : i \in 1..Len(its)}

\* C13 (only briefed items are recorded): after a run, every entry of the
\* store that the run recorded (it is not in the store the run started on)
\* has the key of an item of the run's capped list.
C13_OnlyBriefedRecorded ==
    mstep = "ran" =>
        \A e \in disk.data \ _load(preDisk).value : e[1] \in KeysOf(capped)

=============================================================================
